---- MODULE Spec2Model ----
(***************************************************************************)
(* A model of src/app.py: a console chat loop around a LangGraph ReAct     *)
(* agent.  The program's own code is process_chunks (the turn processor),  *)
(* process_checkpoints (the checkpoint renderer) and the module-level      *)
(* console loop.  The agent runtime (langgraph_agent.stream) and the       *)
(* checkpoint store (memory.list) are the environment: the runtime yields  *)
(* chunks and persists checkpoints, nondeterministically.                  *)
(*                                                                         *)
(* Text is a sequence of one-character strings, so that str.lower() is a   *)
(* computation on characters.  The console is the sequence of lines handed *)
(* to rich.print, each a record [kind, name, text, num].                   *)
(***************************************************************************)
EXTENDS Integers, Sequences, FiniteSets, TLC

VARIABLES
    pc,             \* where the console loop (or a renderer call) stands
    user_question,  \* the last line read by input()
    chunk,          \* the chunk being handled by the loop body
    thread,         \* the runtime's message history of thread "1"
    memory,         \* the MemorySaver's checkpoints of thread "1", oldest first
    checkpoints,    \* the value bound to `checkpoints` (a memory.list result)
    out,            \* the console: every line printed so far
    raised,         \* the exception that ended the process, if any
    calls,          \* how often stream / list / the renderers were called
    turn,           \* per-turn counts of the loop body's steps
    last            \* the lines printed by the latest renderer call

vars == <<pc, user_question, chunk, thread, memory, checkpoints, out, raised,
          calls, turn, last>>

---------------------------------------------------------------------------
(* Bounds of the model. *)

\* Most checkpoints the store holds in the console-loop specification.
MaxCheckpoints == 3

\* Most tool-call entries of one message in the turn-processor specification.
MaxToolCalls == 2

\* Most checkpoints of a list in the checkpoint-renderer specification.
MaxListLen == 3

---------------------------------------------------------------------------
(* Text *)

\* str.lower() on one character (line 135), for the letters the model uses.
LowerChar(c) ==
    CASE c = "Q" -> "q"
      [] c = "U" -> "u"
      [] c = "I" -> "i"
      [] c = "T" -> "t"
      [] c = "H" -> "h"
      [] OTHER   -> c

\* str.lower(): character by character.
lower(s) == [k \in 1..Len(s) |-> LowerChar(s[k])]

\* The sentinel of line 135.
QuitSentinel == <<"q", "u", "i", "t">>

\* The lines input() may return.
Inputs ==
    { <<"q", "u", "i", "t">>, <<"Q", "U", "I", "T">>, <<"Q", "u", "i", "t">>,
      <<"q", "U", "i", "T">>,
      <<"q", "u", "i", "t", " ">>, <<"H", "i">>, <<>> }

Hello == <<"H", "e", "l", "l", "o">>
Ok    == <<"o", "k">>
Rain  == <<"r", "a", "i", "n">>
Snow  == <<"s", "n", "o", "w">>

---------------------------------------------------------------------------
(* Console lines: what the code hands to rich.print. *)

Line(kind, name, text, num) ==
    [kind |-> kind, name |-> name, text |-> text, num |-> num]

\* line 71-74
ToolLine(tool_name, tool_query) == Line("calling tool", tool_name, tool_query, 0)
\* line 82
AnswerLine(agent_anser) == Line("final answer", "", agent_anser, 0)
\* line 101 and line 126
RuleTop    == Line("rule top", "", <<>>, 0)
RuleBottom == Line("rule bottom", "", <<>>, 0)
\* line 109-111
CheckpointHeader == Line("Checkpoint", "", <<>>, 0)
TimestampLine(ts) == Line("Timestamp", "", <<>>, ts)
CheckpointIdLine(id) == Line("Checkpoint ID", "", <<>>, id)
\* line 116-118 and 120-122
UserLine(message)  == Line("User", "", message.content, message.id)
AgentLine(message) == Line("Agent", "", message.content, message.id)
\* line 124
BlankLine == Line("blank", "", <<>>, 0)
\* line 136
FarewellLine == Line("farewell", "", <<>>, 0)

---------------------------------------------------------------------------
(* Messages, tool calls and chunks *)

NoError == "none"

\* A tool call's "arguments" is a string written by the model.  Its form says
\* what kind of text it is; query is the query it spells out, if any.
\*   python_dict   a JSON object that is also a Python dict display,
\*                 {"query": "rain"}
\*   json_literal  a JSON object with a query and a true/false/null value,
\*                 {"query": "rain", "raw": true}
\*   no_query      a dict display without a "query" key, {"q": "rain"}
\*   json_array    a JSON array, ["rain"]
\*   truncated     text cut short, {"query": "ra
Arguments(form, query) == [form |-> form, query |-> query]

ArgumentForms == {"python_dict", "json_literal", "no_query", "json_array", "truncated"}

\* The forms that spell a serialized structure with a query field.
HasQueryField(arguments) == arguments.form \in {"python_dict", "json_literal"}

ToolCall(name, arguments) == [name |-> name, arguments |-> arguments]

\* A message: its class (HumanMessage, AIMessage, ...), content, id, the keys
\* of additional_kwargs and additional_kwargs["tool_calls"] when present.
Message(type, content, id, kwargs, tool_calls) ==
    [type |-> type, content |-> content, id |-> id,
     additional_kwargs |-> kwargs, tool_calls |-> tool_calls]

HumanMessage(content, id) == Message("HumanMessage", content, id, {}, <<>>)
AIAnswer(content, id)     == Message("AIMessage", content, id, {}, <<>>)
AIToolCalls(tool_calls, id) ==
    Message("AIMessage", <<>>, id, {"tool_calls"}, tool_calls)
ToolMessage(content, id)   == Message("ToolMessage", content, id, {}, <<>>)
SystemMessage(content, id) == Message("SystemMessage", content, id, {}, <<>>)

\* A chunk of stream(): a dict from the node's name to {"messages": [...]}.
Chunk(node, messages) == node :> [messages |-> messages]

NoChunk == <<>>

---------------------------------------------------------------------------
(* process_chunks, lines 31-82 *)

\* eval(tool_call["function"]["arguments"]), line 67: the text is evaluated as
\* a Python expression.  A dict display evaluates to a dict; true, false and
\* null are unbound names in Python; cut text does not parse.
eval(arguments) ==
    CASE arguments.form = "python_dict" ->
            [exc |-> NoError, type |-> "dict", keys |-> {"query"}, query |-> arguments.query]
      [] arguments.form = "no_query" ->
            [exc |-> NoError, type |-> "dict", keys |-> {"q"}, query |-> <<>>]
      [] arguments.form = "json_array" ->
            [exc |-> NoError, type |-> "list", keys |-> {}, query |-> <<>>]
      [] arguments.form = "json_literal" ->
            [exc |-> "NameError", type |-> "none", keys |-> {}, query |-> <<>>]
      [] OTHER ->
            [exc |-> "SyntaxError", type |-> "none", keys |-> {}, query |-> <<>>]

\* tool_arguments["query"], line 68: the exception it raises, if any.
QueryLookup(tool_arguments) ==
    IF tool_arguments.type # "dict" THEN "TypeError"
    ELSE IF "query" \notin tool_arguments.keys THEN "KeyError"
    ELSE NoError

\* The loop of lines 62-74 over the rest of tool_calls: the lines printed and
\* the exception that ended it (the first one raised), if any.
RECURSIVE RenderToolCalls(_)
RenderToolCalls(tool_calls) ==
    IF tool_calls = <<>> THEN [lines |-> <<>>, exc |-> NoError]
    ELSE LET tool_call      == Head(tool_calls)
             tool_name      == tool_call.name
             tool_arguments == eval(tool_call.arguments)
         IN  IF tool_arguments.exc # NoError
             THEN [lines |-> <<>>, exc |-> tool_arguments.exc]
             ELSE IF QueryLookup(tool_arguments) # NoError
             THEN [lines |-> <<>>, exc |-> QueryLookup(tool_arguments)]
             ELSE LET rest == RenderToolCalls(Tail(tool_calls))
                  IN  [lines |-> <<ToolLine(tool_name, tool_arguments.query)>> \o rest.lines,
                       exc   |-> rest.exc]

\* A slip of lines 55-82: the final answer is printed whether or not the
\* message carries tool calls (the else of line 75 lost).
RenderMessageNoElse(message) ==
    IF "tool_calls" \in message.additional_kwargs
    THEN LET r == RenderToolCalls(message.tool_calls)
         IN  IF r.exc # NoError THEN r
             ELSE [lines |-> r.lines \o <<AnswerLine(message.content)>>, exc |-> NoError]
    ELSE [lines |-> <<AnswerLine(message.content)>>, exc |-> NoError]

\* The body of the loop of line 53 for one message, lines 55-82.
RenderMessage(message) ==
    IF "tool_calls" \in message.additional_kwargs
    THEN RenderToolCalls(message.tool_calls)
    ELSE [lines |-> <<AnswerLine(message.content)>>, exc |-> NoError]

\* The loop of line 53 over the rest of the messages.
RECURSIVE RenderMessages(_)
RenderMessages(messages) ==
    IF messages = <<>> THEN [lines |-> <<>>, exc |-> NoError]
    ELSE LET first == RenderMessage(Head(messages))
         IN  IF first.exc # NoError THEN first
             ELSE LET rest == RenderMessages(Tail(messages))
                  IN  [lines |-> first.lines \o rest.lines, exc |-> rest.exc]

\* A slip of line 51: the messages of every node are rendered.
process_chunks_any_node(c) ==
    IF "agent" \in DOMAIN c THEN RenderMessages(c["agent"].messages)
    ELSE IF "tools" \in DOMAIN c THEN RenderMessages(c["tools"].messages)
    ELSE [lines |-> <<>>, exc |-> NoError]

\* process_chunks(chunk), lines 51-82.
process_chunks(c) ==
    IF "agent" \in DOMAIN c
    THEN RenderMessages(c["agent"].messages)
    ELSE [lines |-> <<>>, exc |-> NoError]

---------------------------------------------------------------------------
(* process_checkpoints, lines 86-126 *)

\* A checkpoint of the store: checkpoint["ts"], checkpoint["id"] and
\* checkpoint["channel_values"], a dict that may lack the "messages" key.
Checkpoint(ts, id, channel_values) ==
    [ts |-> ts, id |-> id, channel_values |-> channel_values]

WithMessages(messages) == "messages" :> messages
NoChannels == <<>>

\* checkpoint["channel_values"].get("messages", []), line 106.
GetMessages(checkpoint) ==
    IF "messages" \in DOMAIN checkpoint.channel_values
    THEN checkpoint.channel_values["messages"]
    ELSE <<>>

\* A slip of lines 115-122: else in place of elif isinstance(message, AIMessage).
RenderStoredMessageElse(message) ==
    IF message.type = "HumanMessage" THEN <<UserLine(message)>>
    ELSE <<AgentLine(message)>>

\* The body of the loop of line 114 for one message, lines 115-122.
RenderStoredMessage(message) ==
    IF message.type = "HumanMessage" THEN <<UserLine(message)>>
    ELSE IF message.type = "AIMessage" THEN <<AgentLine(message)>>
    ELSE <<>>

\* The loop of line 114.
RECURSIVE RenderStoredMessages(_)
RenderStoredMessages(messages) ==
    IF messages = <<>> THEN <<>>
    ELSE RenderStoredMessage(Head(messages)) \o RenderStoredMessages(Tail(messages))

\* The body of the loop of line 103 for one checkpoint, lines 105-124.
RenderCheckpoint(checkpoint) ==
    <<CheckpointHeader, TimestampLine(checkpoint.ts), CheckpointIdLine(checkpoint.id)>>
        \o RenderStoredMessages(GetMessages(checkpoint))
        \o <<BlankLine>>

\* The loop of line 103, in the order of the collection.
RECURSIVE RenderCheckpoints(_)
RenderCheckpoints(items) ==
    IF items = <<>> THEN <<>>
    ELSE RenderCheckpoint(Head(items)) \o RenderCheckpoints(Tail(items))

\* items with its checkpoints in ascending timestamp order (insertion sort).
RECURSIVE SortedByTs(_)
SortedByTs(items) ==
    IF items = <<>> THEN <<>>
    ELSE LET rest == SortedByTs(Tail(items))
             h    == Head(items)
             k    == Cardinality({j \in 1..Len(rest) : rest[j].ts < h.ts})
         IN  SubSeq(rest, 1, k) \o <<h>> \o SubSeq(rest, k + 1, Len(rest))

\* A slip of line 103: the checkpoints sorted by timestamp before printing.
process_checkpoints_sorted(items) ==
    <<RuleTop>> \o RenderCheckpoints(SortedByTs(items)) \o <<RuleBottom>>

\* process_checkpoints(checkpoints) on the checkpoints the iteration of line
\* 103 yields, lines 101-126: the lines printed.
process_checkpoints(items) ==
    <<RuleTop>> \o RenderCheckpoints(items) \o <<RuleBottom>>

\* The value of a memory.list(...) call, line 148: MemorySaver.list is a
\* generator function, so the value is a single-pass iterator over the
\* thread's checkpoints, newest first.
Reverse(s) == [k \in 1..Len(s) |-> s[Len(s) + 1 - k]]
memory_list(store) == [kind |-> "iterator", items |-> Reverse(store)]

\* A list holding the same checkpoints (the argument the docstring of lines
\* 94-95 names).
AsList(items) == [kind |-> "list", items |-> items]

NoCollection == [kind |-> "none", items |-> <<>>]

\* A slip in the loop of line 103: the collection is emptied while printed
\* (checkpoints.pop() in place of iteration).
AfterIterationPopped(collection) ==
    [kind |-> collection.kind, items |-> <<>>]

\* The collection after enumerate(checkpoints) has run to its end, line 103:
\* a list is as it was, an iterator is exhausted.
AfterIteration(collection) ==
    IF collection.kind = "iterator"
    THEN [kind |-> "iterator", items |-> <<>>]
    ELSE collection

---------------------------------------------------------------------------
(* The console loop, lines 130-150, and its environment *)

NoRaise == [exc |-> NoError, at |-> "nowhere"]

NoCalls == [stream |-> 0, list |-> 0, process_chunks |-> 0, process_checkpoints |-> 0]

NewTurn == [yielded |-> 0, processed |-> 0, fetched |-> 0, rendered |-> 0]

\* A slip of line 135: the input compared as typed.
IsQuitExact(line) == line = QuitSentinel

\* user_question.lower() == "quit", line 135.
IsQuit(line) == lower(line) = QuitSentinel

\* A slip of lines 140-150: the loop body wrapped in try/except, the loop
\* going on to the next input.
CaughtAndContinue == "AwaitingInput"

\* Where an exception raised in the loop body goes: no try statement encloses
\* lines 140-150, so it leaves the while loop and ends the process.
Uncaught == "Crashed"

\* A slip of lines 145-150: the checkpoints listed only after an agent chunk.
AfterProcessChunksAgentOnly(c) ==
    IF "agent" \in DOMAIN c THEN "ListCheckpoints" ELSE "Streaming"

\* The statement after process_chunks(chunk) returns, line 148.
AfterProcessChunks(c) == "ListCheckpoints"

\* The chunks the ReAct runtime yields in the console-loop specification: an
\* answer, a search request, a search request whose arguments are cut short,
\* and the tools node's result.  id is the id of the chunk's message.
ToolName == "tavily_search_results_json"

RuntimeChunks(id) ==
    { Chunk("agent", <<AIAnswer(Ok, id)>>),
      Chunk("agent", <<AIToolCalls(<<ToolCall(ToolName, Arguments("python_dict", Rain))>>, id)>>),
      Chunk("agent", <<AIToolCalls(<<ToolCall(ToolName, Arguments("truncated", <<>>))>>, id)>>),
      Chunk("tools", <<ToolMessage(Snow, id)>>) }

\* The messages a chunk carries, whatever its node.
ChunkMessages(c) == c[CHOOSE node \in DOMAIN c : TRUE].messages

Init ==
    /\ pc = "AwaitingInput"
    /\ user_question = <<>>
    /\ chunk = NoChunk
    /\ thread = <<>>
    /\ memory = <<>>
    /\ checkpoints = NoCollection
    /\ out = <<>>
    /\ raised = NoRaise
    /\ calls = NoCalls
    /\ turn = NewTurn
    /\ last = <<>>

\* Lines 132-137: the line read is the sentinel; farewell and break.
Quit ==
    /\ pc = "AwaitingInput"
    /\ \E line \in Inputs :
        /\ IsQuit(line)
        /\ user_question' = line
    /\ out' = Append(out, FarewellLine)
    /\ pc' = "Done"
    /\ UNCHANGED <<chunk, thread, memory, checkpoints, raised, calls, turn, last>>

\* Lines 132-143: any other line; langgraph_agent.stream(...) is called with
\* the question as a HumanMessage on thread "1".
Ask ==
    /\ pc = "AwaitingInput"
    /\ Len(memory) < MaxCheckpoints
    /\ \E line \in Inputs :
        /\ ~IsQuit(line)
        /\ user_question' = line
    /\ calls' = [calls EXCEPT !.stream = @ + 1]
    /\ turn' = NewTurn
    /\ pc' = "Streaming"
    /\ UNCHANGED <<chunk, thread, memory, checkpoints, out, raised, last>>

\* The thread's history when the runtime runs its next node: the question is
\* appended on the first step of the turn.
ThreadWithInput ==
    IF turn.yielded = 0
    THEN Append(thread, HumanMessage(user_question, Len(thread) + 1))
    ELSE thread

\* Line 140, the for statement takes the next chunk: the runtime has run one
\* node, appended its message to the history and persisted a checkpoint.
StreamYield ==
    /\ pc = "Streaming"
    /\ Len(memory) < MaxCheckpoints
    /\ \E c \in RuntimeChunks(Len(ThreadWithInput) + 1) :
        /\ chunk' = c
        /\ thread' = ThreadWithInput \o ChunkMessages(c)
    /\ memory' = Append(memory, Checkpoint(10 * (Len(memory) + 1), Len(memory) + 1,
                                           WithMessages(thread')))
    /\ turn' = [turn EXCEPT !.yielded = @ + 1]
    /\ pc' = "ProcessChunks"
    /\ UNCHANGED <<user_question, checkpoints, out, raised, calls, last>>

\* Line 140, the stream is exhausted (the agent node has run at least once).
StreamEnd ==
    /\ pc = "Streaming"
    /\ turn.yielded > 0
    /\ pc' = "AwaitingInput"
    /\ UNCHANGED <<user_question, chunk, thread, memory, checkpoints, out, raised,
                   calls, turn, last>>

\* Line 140, the model client or the tool adapter raises inside the runtime.
StreamError ==
    /\ pc = "Streaming"
    /\ raised' = [exc |-> "ServiceError", at |-> "stream"]
    /\ pc' = Uncaught
    /\ UNCHANGED <<user_question, chunk, thread, memory, checkpoints, out, calls,
                   turn, last>>

\* Line 145: process_chunks(chunk).
CallProcessChunks ==
    /\ pc = "ProcessChunks"
    /\ LET r == process_chunks(chunk)
       IN  /\ out' = out \o r.lines
           /\ last' = r.lines
           /\ IF r.exc # NoError
              THEN /\ raised' = [exc |-> r.exc, at |-> "process_chunks"]
                   /\ pc' = Uncaught
              ELSE /\ raised' = raised
                   /\ pc' = AfterProcessChunks(chunk)
    /\ calls' = [calls EXCEPT !.process_chunks = @ + 1]
    /\ turn' = [turn EXCEPT !.processed = @ + 1]
    /\ UNCHANGED <<user_question, chunk, thread, memory, checkpoints>>

\* Line 148: checkpoints = memory.list({"configurable": {"thread_id": "1"}}).
CallMemoryList ==
    /\ pc = "ListCheckpoints"
    /\ checkpoints' = memory_list(memory)
    /\ calls' = [calls EXCEPT !.list = @ + 1]
    /\ turn' = [turn EXCEPT !.fetched = @ + 1]
    /\ pc' = "ProcessCheckpoints"
    /\ UNCHANGED <<user_question, chunk, thread, memory, out, raised, last>>

\* One call of process_checkpoints on the collection held, ending at `next`.
RenderCheckpointsCall(next) ==
    /\ out' = out \o process_checkpoints(checkpoints.items)
    /\ last' = process_checkpoints(checkpoints.items)
    /\ checkpoints' = AfterIteration(checkpoints)
    /\ calls' = [calls EXCEPT !.process_checkpoints = @ + 1]
    /\ pc' = next

\* Line 150: process_checkpoints(checkpoints), then back to the for statement.
CallProcessCheckpoints ==
    /\ pc = "ProcessCheckpoints"
    /\ RenderCheckpointsCall("Streaming")
    /\ turn' = [turn EXCEPT !.rendered = @ + 1]
    /\ UNCHANGED <<user_question, chunk, thread, memory, raised>>

\* Line 150, the store raises while the generator of memory.list is iterated
\* at line 103: the rule of line 101 is already printed.
StoreError ==
    /\ pc = "ProcessCheckpoints"
    /\ out' = Append(out, RuleTop)
    /\ last' = <<RuleTop>>
    /\ raised' = [exc |-> "StoreError", at |-> "memory.list"]
    /\ pc' = Uncaught
    /\ UNCHANGED <<user_question, chunk, thread, memory, checkpoints, calls, turn>>

Next ==
    \/ Quit
    \/ Ask
    \/ StreamYield
    \/ StreamEnd
    \/ StreamError
    \/ CallProcessChunks
    \/ CallMemoryList
    \/ CallProcessCheckpoints
    \/ StoreError

Spec == Init /\ [][Next]_vars

---------------------------------------------------------------------------
(* The turn processor on its own: process_chunks applied to a chunk drawn   *)
(* from a bounded set, and once more to a chunk of the runtime.             *)

SeqsUpTo(S, n) == UNION {[1..k -> S] : k \in 0..n}

ToolCallPool ==
    { ToolCall(ToolName, Arguments("python_dict", Rain)),
      ToolCall(ToolName, Arguments("python_dict", Snow)),
      ToolCall("calculator", Arguments("python_dict", Rain)),
      ToolCall(ToolName, Arguments("json_literal", Rain)),
      ToolCall(ToolName, Arguments("no_query", <<>>)),
      ToolCall(ToolName, Arguments("json_array", <<>>)),
      ToolCall(ToolName, Arguments("truncated", <<>>)) }

AgentMessagePool ==
    {AIToolCalls(tool_calls, 1) : tool_calls \in SeqsUpTo(ToolCallPool, MaxToolCalls)}
        \cup {AIAnswer(Ok, 1), AIAnswer(<<>>, 1)}

ChunkDomain ==
    {Chunk("agent", <<m>>) : m \in AgentMessagePool}
        \cup {Chunk("tools", <<m>>) : m \in AgentMessagePool}
        \cup {Chunk("agent", <<m, AIAnswer(Hello, 2)>>) : m \in AgentMessagePool}
        \cup {Chunk("agent", <<AIAnswer(Hello, 2), m>>) : m \in AgentMessagePool}
        \cup {Chunk("agent", <<>>), Chunk("tools", <<ToolMessage(Snow, 1)>>)}

InitChunks ==
    /\ pc = "ProcessChunks"
    /\ chunk \in ChunkDomain
    /\ user_question = <<>>
    /\ thread = <<>>
    /\ memory = <<>>
    /\ checkpoints = NoCollection
    /\ out = <<>>
    /\ raised = NoRaise
    /\ calls = NoCalls
    /\ turn = NewTurn
    /\ last = <<>>

\* process_chunks has returned and is called on the next chunk of the stream.
NextInvocation ==
    /\ pc = "ListCheckpoints"
    /\ calls.process_chunks = 1
    /\ chunk' \in RuntimeChunks(1)
    /\ pc' = "ProcessChunks"
    /\ UNCHANGED <<user_question, thread, memory, checkpoints, out, raised, calls,
                   turn, last>>

NextChunks ==
    \/ CallProcessChunks
    \/ NextInvocation

SpecChunks == InitChunks /\ [][NextChunks]_vars

---------------------------------------------------------------------------
(* The checkpoint renderer on its own: process_checkpoints applied to the   *)
(* value of memory.list, or to a list of the same checkpoints, and once     *)
(* more to the same collection.                                             *)

MessageLists ==
    { <<>>,
      <<HumanMessage(Hello, 1)>>,
      <<HumanMessage(Hello, 1), AIAnswer(Ok, 2)>>,
      <<HumanMessage(Hello, 1),
        AIToolCalls(<<ToolCall(ToolName, Arguments("python_dict", Rain))>>, 2),
        ToolMessage(Snow, 3), AIAnswer(Ok, 4)>>,
      <<SystemMessage(Rain, 5), ToolMessage(Snow, 3), HumanMessage(Hello, 1)>> }

ChannelValues == {NoChannels} \cup {WithMessages(ms) : ms \in MessageLists}

\* The stores of up to MaxListLen checkpoints, oldest first.
Stores ==
    UNION { { [k \in 1..n |-> Checkpoint(10 * k, k, cv[k])] : cv \in [1..n -> ChannelValues] }
            : n \in 0..MaxListLen }

InitRender ==
    /\ pc = "ListCheckpoints"
    /\ memory \in Stores
    /\ user_question = <<>>
    /\ chunk = NoChunk
    /\ thread = <<>>
    /\ checkpoints = NoCollection
    /\ out = <<>>
    /\ raised = NoRaise
    /\ calls = NoCalls
    /\ turn = NewTurn
    /\ last = <<>>

\* The caller holds the checkpoints in a list, in the store's order or in
\* insertion order.
PassList ==
    /\ pc = "ListCheckpoints"
    /\ \E items \in {Reverse(memory), memory} : checkpoints' = AsList(items)
    /\ pc' = "ProcessCheckpoints"
    /\ UNCHANGED <<user_question, chunk, thread, memory, out, raised, calls, turn, last>>

\* process_checkpoints called a second time on the collection already rendered.
RenderAgain ==
    /\ pc = "Streaming"
    /\ calls.process_checkpoints = 1
    /\ RenderCheckpointsCall("RenderedTwice")
    /\ UNCHANGED <<user_question, chunk, thread, memory, raised, turn>>

NextRender ==
    \/ CallMemoryList
    \/ PassList
    \/ CallProcessCheckpoints
    \/ RenderAgain

SpecRender == InitRender /\ [][NextRender]_vars

---------------------------------------------------------------------------
(* Properties *)

ToolLinesOf(lines)   == SelectSeq(lines, LAMBDA l : l.kind = "calling tool")
AnswerLinesOf(lines) == SelectSeq(lines, LAMBDA l : l.kind = "final answer")

InProcessing ==
    pc \in {"Streaming", "ProcessChunks", "ListCheckpoints", "ProcessCheckpoints"}

\* Two characters equal up to case, and two texts equal up to case.
SameLetter(a, b) ==
    \/ a = b
    \/ {a, b} \in {{"q", "Q"}, {"u", "U"}, {"i", "I"}, {"t", "T"}}

EqualsIgnoringCase(s, t) ==
    /\ Len(s) = Len(t)
    /\ \A k \in 1..Len(s) : SameLetter(s[k], t[k])

\* C1: whenever the loop reads a line, if the line equals "quit" up to case
\* the loop prints the farewell and is Done with no call of stream, list or a
\* renderer; for any other line stream is called exactly once, and stream is
\* called at no other step.  Nothing happens after Done.
C1_QuitSentinel ==
    [][ /\ (pc = "AwaitingInput" /\ pc' # "AwaitingInput") =>
              IF EqualsIgnoringCase(user_question', QuitSentinel)
              THEN /\ pc' = "Done"
                   /\ calls' = calls
                   /\ out' = Append(out, FarewellLine)
              ELSE /\ pc' = "Streaming"
                   /\ calls' = [calls EXCEPT !.stream = @ + 1]
        /\ (calls'.stream # calls.stream => pc = "AwaitingInput")
        /\ pc # "Done"
      ]_vars

\* C1 witness: the loop is Done on "QUIT" after a turn that called the agent.
C1_Witness ==
    /\ pc = "Done"
    /\ user_question = <<"Q", "U", "I", "T">>
    /\ calls.stream = 1
    /\ out[Len(out)] = FarewellLine

\* A chunk with a tool call whose arguments do not parse into a structure
\* with a query field.
HasMalformedArguments(c) ==
    \E node \in DOMAIN c :
        \E i \in 1..Len(c[node].messages) :
            LET message == c[node].messages[i]
            IN  /\ "tool_calls" \in message.additional_kwargs
                /\ \E j \in 1..Len(message.tool_calls) :
                       ~HasQueryField(message.tool_calls[j].arguments)

\* C4: once process_chunks has run on a chunk with a malformed argument
\* payload, the process has not terminated (the error is reported and the
\* loop goes on).
C4_MalformedArgumentsNonFatal ==
    (/\ turn.yielded > 0
     /\ turn.processed = turn.yielded
     /\ "agent" \in DOMAIN chunk
     /\ HasMalformedArguments(chunk)) => pc # "Crashed"

CheckpointHeadersOf(lines) == SelectSeq(lines, LAMBDA l : l.kind = "Checkpoint")

\* C5: within a turn the loop body's steps come in order, chunk by chunk:
\* when the next chunk is taken (or the turn is over) every chunk yielded so
\* far has been turn-rendered, then fetched for, then checkpoint-rendered,
\* once each; each fetch is the complete list of the thread and each
\* rendering prints all of it.
C5_FetchAndRenderPerChunk ==
    /\ pc \in {"Streaming", "AwaitingInput", "Done"} =>
          /\ turn.processed = turn.yielded
          /\ turn.fetched = turn.yielded
          /\ turn.rendered = turn.yielded
    /\ pc = "ProcessChunks" =>
          /\ turn.yielded = turn.processed + 1
          /\ turn.fetched = turn.processed
          /\ turn.rendered = turn.processed
    /\ pc = "ListCheckpoints" =>
          /\ turn.processed = turn.yielded
          /\ turn.yielded = turn.fetched + 1
          /\ turn.rendered = turn.fetched
    /\ pc = "ProcessCheckpoints" =>
          /\ turn.processed = turn.yielded
          /\ turn.fetched = turn.yielded
          /\ turn.yielded = turn.rendered + 1
          /\ checkpoints.items = Reverse(memory)
    /\ (pc \in {"Streaming", "AwaitingInput"} /\ turn.rendered > 0) =>
          Len(CheckpointHeadersOf(last)) = Len(memory)
    /\ calls.list = calls.process_chunks \/ calls.list + 1 = calls.process_chunks
    /\ calls.process_checkpoints = calls.list \/ calls.process_checkpoints + 1 = calls.list

\* C5 witness: a turn of two chunks, the second from the tools node, each
\* followed by its fetch and rendering.
C5_Witness ==
    /\ pc = "Streaming"
    /\ "tools" \in DOMAIN chunk
    /\ turn.yielded = 2
    /\ turn.fetched = 2
    /\ turn.rendered = 2

\* C10: an error of the model client, the tool adapter or the store is raised
\* only in Processing and ends the process there: the step that raises it
\* leads to Crashed, keeps the store's checkpoints and calls nothing, and no
\* step follows it (no return to AwaitingInput, no retry, no further chunk).
C10_ErrorsTerminate ==
    [][ /\ (raised.exc = NoError /\ raised'.at \in {"stream", "memory.list"}) =>
              /\ InProcessing
              /\ pc' = "Crashed"
              /\ memory' = memory
              /\ calls' = calls
        /\ raised.exc = NoError
      ]_vars

\* C10 witness: the runtime raised in a turn's second step, with the first
\* step's checkpoint in the store.
C10_Witness ==
    /\ pc = "Crashed"
    /\ raised.at = "stream"
    /\ turn.yielded = 1
    /\ turn.rendered = 1
    /\ Len(memory) = 1

---------------------------------------------------------------------------
(* Properties of the turn processor, under SpecChunks *)

\* process_chunks has run on `chunk` (it returned, or raised).
ChunkRendered == pc \in {"ListCheckpoints", "Crashed"}

AgentMessages == IF "agent" \in DOMAIN chunk THEN chunk["agent"].messages ELSE <<>>

WithoutToolCalls(messages) ==
    SelectSeq(messages, LAMBDA m : "tool_calls" \notin m.additional_kwargs)

WithToolCalls(messages) ==
    SelectSeq(messages, LAMBDA m : "tool_calls" \in m.additional_kwargs)

\* C2: after process_chunks has run on a chunk whose one agent message
\* carries N tool calls, each with a name and a serialized query argument,
\* the output is exactly N "calling tool" lines, the i-th with the i-th
\* entry's name and query, and no "final answer" line.
C2_OneLinePerToolCall ==
    (/\ ChunkRendered
     /\ Len(AgentMessages) = 1
     /\ "tool_calls" \in AgentMessages[1].additional_kwargs
     /\ \A i \in 1..Len(AgentMessages[1].tool_calls) :
            HasQueryField(AgentMessages[1].tool_calls[i].arguments))
    => LET tool_calls == AgentMessages[1].tool_calls
       IN  /\ Len(last) = Len(tool_calls)
           /\ \A i \in 1..Len(tool_calls) :
                  last[i] = ToolLine(tool_calls[i].name, tool_calls[i].arguments.query)

\* C3: after process_chunks has run on an agent chunk, (a) if its one message
\* carries no tool-call metadata the output is exactly one "final answer"
\* line with the message's content; (b) if its one message carries tool-call
\* metadata there is no "final answer" line, whatever became of the tool
\* calls; (c) in general a message is rendered one way only: the final
\* answers printed are those of a prefix of the messages without metadata,
\* all of them when process_chunks returned, and the "calling tool" lines
\* are never more than the tool calls of the messages with metadata.
C3_FinalAnswerOrToolCalls ==
    (ChunkRendered /\ "agent" \in DOMAIN chunk) =>
        LET plain   == WithoutToolCalls(AgentMessages)
            answers == AnswerLinesOf(last)
            entries == [k \in 1..Len(WithToolCalls(AgentMessages)) |->
                            Len(WithToolCalls(AgentMessages)[k].tool_calls)]
            total   == IF Len(entries) = 0 THEN 0
                       ELSE IF Len(entries) = 1 THEN entries[1]
                       ELSE entries[1] + entries[2]
        IN  /\ (Len(AgentMessages) = 1 /\ Len(plain) = 1) =>
                   last = <<AnswerLine(AgentMessages[1].content)>>
            /\ (Len(AgentMessages) = 1 /\ Len(plain) = 0) => answers = <<>>
            /\ Len(answers) <= Len(plain)
            /\ \A k \in 1..Len(answers) : answers[k] = AnswerLine(plain[k].content)
            /\ pc # "Crashed" => Len(answers) = Len(plain)
            /\ Len(ToolLinesOf(last)) <= total
            /\ Len(last) = Len(answers) + Len(ToolLinesOf(last))

\* C3 witness: both cases have been rendered: a message with two tool calls
\* (two lines, no answer) followed by a plain message (its answer).
C3_Witness ==
    /\ pc = "ListCheckpoints"
    /\ "agent" \in DOMAIN chunk
    /\ Len(AgentMessages) = 2
    /\ "tool_calls" \in AgentMessages[1].additional_kwargs
    /\ Len(AgentMessages[1].tool_calls) = 2
    /\ Len(ToolLinesOf(last)) = 2
    /\ AnswerLinesOf(last) = <<AnswerLine(Hello)>>

\* What the chunks of the runtime print, one by one.
ExpectedOfRuntimeChunk(c) ==
    IF c = Chunk("agent", <<AIAnswer(Ok, 1)>>) THEN <<AnswerLine(Ok)>>
    ELSE IF "agent" \in DOMAIN c /\ ~HasMalformedArguments(c)
    THEN <<ToolLine(ToolName, Rain)>>
    ELSE <<>>

\* C9: after process_chunks has run on a chunk with no "agent" entry nothing
\* was printed and nothing raised, whatever the chunk's messages; a call
\* changes nothing but the console; and what a second call prints is fixed
\* by its chunk alone, whatever the first call was given.
C9_OnlyAgentChunksNoState ==
    /\ (ChunkRendered /\ "agent" \notin DOMAIN chunk) =>
          /\ last = <<>>
          /\ pc # "Crashed"
          /\ raised = NoRaise
    /\ (ChunkRendered /\ "agent" \notin DOMAIN chunk /\ calls.process_chunks = 1) =>
          out = <<>>
    /\ (ChunkRendered /\ calls.process_chunks = 2) =>
          last = ExpectedOfRuntimeChunk(chunk)
    /\ memory = <<>> /\ thread = <<>> /\ checkpoints = NoCollection
    /\ user_question = <<>>

\* C9 witness: a tools-node chunk whose message carries a tool call with cut
\* arguments has been processed.
C9_Witness ==
    /\ pc = "ListCheckpoints"
    /\ chunk = Chunk("tools",
                     <<AIToolCalls(<<ToolCall(ToolName, Arguments("truncated", <<>>))>>, 1)>>)
    /\ out = <<>>

---------------------------------------------------------------------------
(* Properties of the checkpoint renderer, under SpecRender *)

\* The checkpoints of the collection handed to process_checkpoints, as it
\* was before the first rendering.
Given ==
    IF checkpoints.kind = "iterator" THEN Reverse(memory) ELSE checkpoints.items

\* The positions of the section headers in lines, and the k-th of them.
HeaderPositions(lines) == {i \in 1..Len(lines) : lines[i].kind = "Checkpoint"}

HeaderPosition(lines, k) ==
    CHOOSE i \in HeaderPositions(lines) :
        Cardinality({j \in HeaderPositions(lines) : j < i}) = k - 1

\* The lines of the k-th section: from its header up to the next header, or
\* to the end.
Section(lines, k) ==
    LET from == HeaderPosition(lines, k)
        to   == IF k < Cardinality(HeaderPositions(lines))
                THEN HeaderPosition(lines, k + 1) - 1
                ELSE Len(lines)
    IN  SubSeq(lines, from, to)

MessageLinesOf(lines) == SelectSeq(lines, LAMBDA l : l.kind \in {"User", "Agent"})

\* The first rendering of the collection is done (and no second one).
RenderedOnce == pc = "Streaming" /\ calls.process_checkpoints = 1

\* C6: the rendering of K checkpoints has exactly K section headers, the
\* k-th followed at once by the timestamp and then the identifier of the
\* k-th checkpoint of the collection.
C6_OneSectionPerCheckpoint ==
    RenderedOnce =>
        /\ Cardinality(HeaderPositions(last)) = Len(Given)
        /\ \A k \in 1..Len(Given) :
               LET section == Section(last, k)
               IN  /\ Len(section) >= 3
                   /\ section[2] = TimestampLine(Given[k].ts)
                   /\ section[3] = CheckpointIdLine(Given[k].id)

\* C6 witness: three checkpoints rendered newest first.
C6_Witness ==
    /\ RenderedOnce
    /\ Len(Given) = 3
    /\ Given[1].ts > Given[2].ts
    /\ Cardinality(HeaderPositions(last)) = 3

KnownRole(m) == m.type \in {"HumanMessage", "AIMessage"}

\* The lines the messages of one checkpoint are to give.
ExpectedMessageLines(messages) ==
    LET known == SelectSeq(messages, KnownRole)
    IN  [k \in 1..Len(known) |->
            Line(IF known[k].type = "HumanMessage" THEN "User" ELSE "Agent",
                 "", known[k].content, known[k].id)]

\* C8: in the rendering, the message lines of the k-th section are exactly
\* the user and assistant messages of the k-th checkpoint, in stored order,
\* labelled User or Agent with content and identifier; other messages give
\* no line and every section is present.
C8_MessageLines ==
    RenderedOnce =>
        /\ Cardinality(HeaderPositions(last)) = Len(Given)
        /\ \A k \in 1..Len(Given) :
               MessageLinesOf(Section(last, k)) = ExpectedMessageLines(GetMessages(Given[k]))

\* C8 witness: a checkpoint whose messages start with two of other roles and
\* end with the user message "Hello" of id 1 is rendered as that one line,
\* and the checkpoint after it is rendered too.
C8_Witness ==
    /\ RenderedOnce
    /\ Len(Given) = 2
    /\ GetMessages(Given[1]) =
           <<SystemMessage(Rain, 5), ToolMessage(Snow, 3), HumanMessage(Hello, 1)>>
    /\ MessageLinesOf(Section(last, 1)) = <<Line("User", "", Hello, 1)>>
    /\ Len(MessageLinesOf(Section(last, 2))) = 2

====
